---- MODULE Spec2Model ----
(***************************************************************************)
(* Model of SentinelHubStatDownloadClient                                  *)
(* (src/sentinelhub/download/sentinelhub_stat_client.py): any number of    *)
(* _single_download calls, one after the other, for one request against    *)
(* its response file and its request-descriptor file.  Each call fetches   *)
(* or loads a composite response, scans it for retriable interval errors,  *)
(* retries the failed intervals in a thread pool, merges the outcomes by   *)
(* index and decides what to write.                                        *)
(***************************************************************************)
EXTENDS Integers, Sequences, FiniteSets, TLC

\* ---------------------------------------------------------------- bounds
\* Largest number of interval entries in a composite response.
MaxLen == 2

\* ------------------------------------------------------ program constants
\* _RETRY_NUM, the number of attempts of one interval sub-request.
RETRY_NUM == 1
\* _RETIRABLE_ERRORS
RETIRABLE_ERRORS == {"EXECUTION_ERROR", "TIMEOUT"}

\* ------------------------------------------------------------ data model
\* Python's None, and a present value, for optional values.
None == << >>
Some(x) == << x >>

\* stat_info['error']['type'] of an interval entry: "none" is an entry with
\* no 'error' key, "BAD_REQUEST" stands for every type outside the list.
ErrorTypes == {"none", "EXECUTION_ERROR", "TIMEOUT", "BAD_REQUEST"}

\* The time range of the composite request, and stat_info['interval'] of the
\* entry at (0-based) index i of its response.
FullRange == 0
IntervalOf(i) == 10 + i

\* One interval entry (stat_info).
StatInfo(interval, type) == [interval |-> interval, error |-> type]

\* 'error' not in stat_info
HasNoError(stat_info) == stat_info.error = "none"

\* A classification that takes every error for retriable.
HasAnyError(stat_info) == stat_info.error # "none"

\* _has_retriable_error
_has_retriable_error(stat_info) == stat_info.error \in RETIRABLE_ERRORS

\* The composite responses the service can answer with for a request that
\* covers n intervals: n entries in chronological order, each with any error
\* type.
CompositeResponses(n) ==
    { [p \in 1..n |-> StatInfo(IntervalOf(p - 1), f[p])] : f \in [1..n -> ErrorTypes] }

\* The (0-based) indices of a data sequence.
Indices(data) == 0..(Len(data) - 1)

VARIABLES
    respFile,               \* content of the file at response_path: None or Some(data)
    reqFile,                \* TRUE iff the file at request_path exists
    n_intervals,            \* number of intervals the request covers
    pc,                     \* position of the current call
    request,                \* the DownloadRequest
    redownload,             \* self.redownload
    download_required,
    stats_response,         \* stats_response['data']
    failed_time_intervals,  \* ordered dict, as a sequence of [index, interval]
    tasks,                  \* the thread pool's tasks, by position of submission
    retried_responses,      \* dict index -> stat_info
    n_succeeded_intervals,
    result,                 \* the value returned: None or Some(data)
    error,                  \* the exception the call raised, "none" if none
    io,                     \* per-call count of network and disk operations
    initial_response,       \* stats_response['data'] as first decoded or loaded
    fileAtStart,            \* respFile when the call started
    reqFileAtStart,         \* reqFile when the call started
    completion,             \* positions of the tasks in the order they ended
    prev,                   \* summary of the previous call, None if not kept
    other                   \* the call of a second caller, idle unless callers race

vars == << respFile, reqFile, n_intervals, pc, request, redownload, download_required,
           stats_response, failed_time_intervals, tasks, retried_responses,
           n_succeeded_intervals, result, error, io, initial_response,
           fileAtStart, reqFileAtStart, completion, prev, other >>

fileVars == << respFile, reqFile >>
callVars == << n_intervals, request, redownload, fileAtStart, reqFileAtStart,
              completion, prev, other >>

NoIO == [composite_fetch |-> 0, interval_fetch |-> 0, executor |-> 0,
         exists |-> 0, read |-> 0, request_write |-> 0, response_write |-> 0]

\* The requests a caller can pass: request_path / response_path are TRUE when
\* get_storage_paths returns a path for them and FALSE when it returns None.
\* The locals of a second call of _single_download that runs while the first
\* one does, before it starts.
OtherIdle == [pc |-> "idle", download_required |-> FALSE, stats_response |-> << >>,
              failed_time_intervals |-> << >>, n_succeeded_intervals |-> 0,
              result |-> None, error |-> "none", composite_fetch |-> 0,
              read |-> 0, response_write |-> 0, after_first |-> FALSE]

Requests == [valid : BOOLEAN, save_response : BOOLEAN, return_data : BOOLEAN,
             request_path : BOOLEAN, response_path : BOOLEAN, timeRange : {FullRange}]

Init ==
    /\ respFile = None
    /\ reqFile = FALSE
    /\ n_intervals \in 0..MaxLen
    /\ pc = "idle"
    /\ request \in Requests
    /\ redownload = FALSE
    /\ download_required = FALSE
    /\ stats_response = << >>
    /\ failed_time_intervals = << >>
    /\ tasks = << >>
    /\ retried_responses = << >>
    /\ n_succeeded_intervals = 0
    /\ result = None
    /\ error = "none"
    /\ io = NoIO
    /\ initial_response = << >>
    /\ fileAtStart = None
    /\ reqFileAtStart = FALSE
    /\ completion = << >>
    /\ prev = None
    /\ other = OtherIdle

\* ------------------------------------------------------------------ calls
\* What the next call keeps of a finished one: kept only for a completed call
\* with redownload off that found no retriable entry.
Summary ==
    IF pc = "done" /\ ~redownload /\ io.composite_fetch + io.read > 0
       /\ failed_time_intervals = << >>
    THEN Some([response |-> stats_response, result |-> result, stored |-> respFile])
    ELSE None

\* A caller invokes _single_download(request, _) on the client.
StartCall ==
    /\ pc \in {"idle", "done", "failed"}
    /\ redownload' \in BOOLEAN
    /\ prev' = Summary
    /\ pc' = "validate"
    /\ download_required' = FALSE
    /\ stats_response' = << >>
    /\ failed_time_intervals' = << >>
    /\ tasks' = << >>
    /\ retried_responses' = << >>
    /\ n_succeeded_intervals' = 0
    /\ result' = None
    /\ error' = "none"
    /\ io' = NoIO
    /\ initial_response' = << >>
    /\ fileAtStart' = respFile
    /\ reqFileAtStart' = reqFile
    /\ completion' = << >>
    /\ UNCHANGED << fileVars, n_intervals, request, other >>

\* request.raise_if_invalid()
raise_if_invalid(r) == ~r.valid

\* No early return.
NeverNothingToDo(r) == FALSE

\* if not (request.save_response or request.return_data): return None
NothingToDo(r) == ~(r.save_response \/ r.return_data)

Validate ==
    /\ pc = "validate"
    /\ IF raise_if_invalid(request)
         THEN pc' = "failed" /\ error' = "InvalidRequest"
         ELSE /\ error' = error
              /\ pc' = IF NothingToDo(request) THEN "done" ELSE "paths"
    /\ UNCHANGED << fileVars, callVars, download_required, stats_response,
                    failed_time_intervals, tasks, retried_responses,
                    n_succeeded_intervals, result, io, initial_response >>

\* A decision that ignores self.redownload.
DownloadUnlessCached(rd, r, file) == ~r.response_path \/ file = None

\* A decision that ignores the cached file.
DownloadAlways(rd, r, file) == TRUE

\* request_path, response_path = request.get_storage_paths()
\* download_required = self.redownload or response_path is None
\*                     or not os.path.exists(response_path)
\* Python's `or` stops at the first true operand, so os.path.exists runs only
\* when the two operands before it are false.
DownloadRequired(rd, r, file) == rd \/ ~r.response_path \/ file = None

ResolvePaths ==
    /\ pc = "paths"
    /\ download_required' = DownloadRequired(redownload, request, respFile)
    /\ io' = [io EXCEPT !.exists = @ + (IF ~redownload /\ request.response_path THEN 1 ELSE 0)]
    /\ pc' = IF download_required' THEN "fetch" ELSE "load"
    /\ UNCHANGED << fileVars, callVars, stats_response, failed_time_intervals,
                    tasks, retried_responses, n_succeeded_intervals, result,
                    error, initial_response >>

\* response_content = self._execute_download(request)
\* stats_response = decode_data_function(response_content, request.data_type)
\* The fetch or the decoding may raise; otherwise the service answers with any
\* composite response.
Fetch ==
    /\ pc = "fetch"
    /\ io' = [io EXCEPT !.composite_fetch = @ + 1]
    /\ \/ /\ pc' = "failed"
          /\ error' = "DownloadError"
          /\ UNCHANGED << stats_response, initial_response >>
       \/ \E data \in CompositeResponses(n_intervals) :
             /\ stats_response' = data
             /\ initial_response' = data
             /\ pc' = "scan"
             /\ error' = error
    /\ UNCHANGED << fileVars, callVars, download_required, failed_time_intervals,
                    tasks, retried_responses, n_succeeded_intervals, result >>

\* stats_response = read_data(response_path, data_format=request.data_type)
\* Reading may raise; otherwise it yields what the file holds.
Load ==
    /\ pc = "load"
    /\ io' = [io EXCEPT !.read = @ + 1]
    /\ \/ /\ pc' = "failed"
          /\ error' = "IOError"
          /\ UNCHANGED << stats_response, initial_response >>
       \/ /\ stats_response' = respFile[1]
          /\ initial_response' = respFile[1]
          /\ pc' = "scan"
          /\ error' = error
    /\ UNCHANGED << fileVars, callVars, download_required, failed_time_intervals,
                    tasks, retried_responses, n_succeeded_intervals, result >>

\* failed_time_intervals = {}
\* for index, stat_info in enumerate(stats_response['data']):
\*     if self._has_retriable_error(stat_info):
\*         failed_time_intervals[index] = stat_info['interval']
\* The dict keeps insertion order: the entries of the result are the retriable
\* indices in ascending order.
RECURSIVE ScanFrom(_, _)
ScanFrom(data, p) ==
    IF p > Len(data) THEN << >>
    ELSE (IF _has_retriable_error(data[p])
            THEN << [index |-> p - 1, interval |-> data[p].interval] >>
            ELSE << >>) \o ScanFrom(data, p + 1)

\* A scan that keeps every entry, retriable or not.
ScanEveryEntry(data) == [p \in 1..Len(data) |-> [index |-> p - 1, interval |-> data[p].interval]]

ScanFailures(data) == ScanFrom(data, 1)

\* A call that never retries.
RetryNever(failed) == FALSE

\* A retry that runs whether or not an interval failed.
RetryAlways(failed) == TRUE

\* if failed_time_intervals:
RetryNeeded(failed) == failed # << >>

Scan ==
    /\ pc = "scan"
    /\ failed_time_intervals' = ScanFailures(stats_response)
    /\ n_succeeded_intervals' = 0
    /\ pc' = IF RetryNeeded(failed_time_intervals') THEN "retry" ELSE "persist_request"
    /\ UNCHANGED << fileVars, callVars, download_required, stats_response, tasks,
                    retried_responses, result, error, io, initial_response >>

\* interval_request = copy.deepcopy(request)
\* interval_request.post_values['aggregation']['timeRange'] = time_interval
IntervalRequest(r, time_interval) == [r EXCEPT !.timeRange = time_interval]

\* Sub-requests that are all the one request object, which the loop leaves
\* with the last interval.
IntervalRequestsAliased(r, time_intervals) ==
    [p \in 1..Len(time_intervals) |->
        IntervalRequest(r, time_intervals[Len(time_intervals)].interval)]

\* interval_requests, in the order of time_intervals.values()
IntervalRequests(r, time_intervals) ==
    [p \in 1..Len(time_intervals) |-> IntervalRequest(r, time_intervals[p].interval)]

\* executor.map(self._execute_single_stat_download, interval_requests): every
\* request is submitted at once and gets a worker thread of its own.
Dispatch ==
    /\ pc = "retry"
    /\ tasks' = [p \in 1..Len(failed_time_intervals) |->
                    [request |-> IntervalRequests(request, failed_time_intervals)[p],
                     state |-> "running", retry_count |-> 0, fetches |-> 0,
                     log |-> << >>, result |-> None, error |-> "none"]]
    /\ io' = [io EXCEPT !.executor = @ + 1]
    /\ pc' = "join"
    /\ UNCHANGED << fileVars, callVars, download_required, stats_response,
                    failed_time_intervals, retried_responses,
                    n_succeeded_intervals, result, error, initial_response >>

\* A loop whose budget test is off by one.
ReturnsPastLast(stat_info, retry_count) ==
    ~_has_retriable_error(stat_info) \/ retry_count = RETRY_NUM

\* A loop that returns only a result that is not retriable.
ReturnsOnlyFinal(stat_info, retry_count) == ~_has_retriable_error(stat_info)

\* if not self._has_retriable_error(stat_info) or retry_count == self._RETRY_NUM - 1:
\*     return stat_info
ReturnsNow(stat_info, retry_count) ==
    ~_has_retriable_error(stat_info) \/ retry_count = RETRY_NUM - 1

\* One iteration of the loop of _execute_single_stat_download in the worker of
\* task p: the fetch or decoding raises, or the service answers for the time
\* range of the sub-request and the iteration returns, loops, or leaves the
\* loop for the final raise.
TaskStep(p) ==
    /\ pc = "join"
    /\ p \in 1..Len(tasks)
    /\ tasks[p].state = "running"
    /\ tasks[p].retry_count < RETRY_NUM
    /\ io' = [io EXCEPT !.interval_fetch = @ + 1]
    /\ \/ tasks' = [tasks EXCEPT ![p].state = "raised", ![p].error = "DownloadError",
                                  ![p].fetches = @ + 1]
       \/ \E type \in ErrorTypes :
             LET stat_info == StatInfo(tasks[p].request.timeRange, type)
                 rc == tasks[p].retry_count
             IN tasks' = [tasks EXCEPT
                    ![p].fetches = @ + 1,
                    ![p].log = Append(@, stat_info),
                    ![p].retry_count = IF ReturnsNow(stat_info, rc) THEN rc ELSE rc + 1,
                    ![p].state = IF ReturnsNow(stat_info, rc) THEN "returned"
                                 ELSE IF rc + 1 < RETRY_NUM THEN "running"
                                 ELSE "raised",
                    ![p].result = IF ReturnsNow(stat_info, rc) THEN Some(stat_info) ELSE @,
                    ![p].error = IF ~ReturnsNow(stat_info, rc) /\ ~(rc + 1 < RETRY_NUM)
                                   THEN "ValueError" ELSE @]
    /\ UNCHANGED << fileVars, n_intervals, request, redownload, fileAtStart,
                    reqFileAtStart, prev, other, pc, download_required,
                    stats_response, failed_time_intervals, retried_responses,
                    n_succeeded_intervals, result, error, initial_response >>

\* A step of task p, the order in which the tasks end not being recorded.
TaskAttempt(p) == TaskStep(p) /\ UNCHANGED completion

\* A step of task p, recorded in completion when it ends the task.
TaskAttemptTimed(p) ==
    /\ TaskStep(p)
    /\ completion' = IF tasks'[p].state # "running"
                        THEN Append(completion, p) ELSE completion

\* A with block that does not wait for its tasks.
NoBarrier == TRUE

\* The with block ends when every task has ended.
AllJoined == \A p \in 1..Len(tasks) : tasks[p].state # "running"

\* list(executor.map(...)) raises the exception of the first task, by position,
\* that raised.
FirstRaised == CHOOSE p \in 1..Len(tasks) :
    /\ tasks[p].state = "raised"
    /\ \A q \in 1..(p - 1) : tasks[q].state # "raised"

\* A map that swallows the exceptions of its tasks.
MapNeverRaises(ts) == FALSE

\* list(executor.map(...)) raises when a task raised.
MapRaises(ts) == \E p \in 1..Len(ts) : ts[p].state = "raised"

\* Results collected in the order in which the tasks ended.
StatInfoResponsesAsCompleted(ts) ==
    [k \in 1..Len(completion) |-> ts[completion[k]].result[1]]

\* stat_info_responses: what the tasks returned, in the order of submission.
IsReturned(t) == t.state = "returned"
StatInfoResponses(ts) ==
    LET returned == SelectSeq(ts, IsReturned)
    IN [p \in 1..Len(returned) |-> returned[p].result[1]]

Min(a, b) == IF a <= b THEN a ELSE b

\* A zip that pairs the keys with the results in the opposite order.
ZipReversed(time_intervals, stat_info_responses) ==
    LET len == Min(Len(time_intervals), Len(stat_info_responses))
    IN [i \in { time_intervals[p].index : p \in 1..len } |->
          LET p == CHOOSE q \in 1..len : time_intervals[q].index = i
          IN stat_info_responses[len + 1 - p]]

\* return {index: stat_info for index, stat_info in zip(time_intervals, stat_info_responses)}
\* zip pairs the keys of time_intervals and the results by position and stops
\* at the end of the shorter of the two.
ZipByPosition(time_intervals, stat_info_responses) ==
    LET len == Min(Len(time_intervals), Len(stat_info_responses))
    IN [i \in { time_intervals[p].index : p \in 1..len } |->
          LET p == CHOOSE q \in 1..len : time_intervals[q].index = i
          IN stat_info_responses[p]]

\* A count of every retried outcome, with or without an error.
CountAll(retried) == Cardinality(DOMAIN retried)

\* n_succeeded_intervals = sum('error' not in stat_info for stat_info in retried_responses.values())
CountSucceeded(retried) == Cardinality({ i \in DOMAIN retried : HasNoError(retried[i]) })

\* A merge that keeps only the entries that were retried.
MergeRetriedOnly(data, retried) ==
    LET kept == SelectSeq([p \in 1..Len(data) |-> p - 1], LAMBDA i : i \in DOMAIN retried)
    IN [p \in 1..Len(kept) |-> retried[kept[p]]]

\* stats_response['data'] = [retried_responses.get(index, stat_info)
\*                           for index, stat_info in enumerate(stats_response['data'])]
MergeData(data, retried) ==
    [p \in 1..Len(data) |-> IF (p - 1) \in DOMAIN retried THEN retried[p - 1] ELSE data[p]]

\* A sub-request raised: the exception leaves _download_per_interval and
\* _single_download.
RetryFailed ==
    /\ pc = "join"
    /\ AllJoined
    /\ MapRaises(tasks)
    /\ error' = tasks[FirstRaised].error
    /\ pc' = "failed"
    /\ UNCHANGED << fileVars, callVars, download_required, stats_response,
                    failed_time_intervals, tasks, retried_responses,
                    n_succeeded_intervals, result, io, initial_response >>

\* Every sub-request returned: build the dict, count, merge.
Merge ==
    /\ pc = "join"
    /\ AllJoined
    /\ ~MapRaises(tasks)
    /\ retried_responses' = ZipByPosition(failed_time_intervals, StatInfoResponses(tasks))
    /\ n_succeeded_intervals' = CountSucceeded(retried_responses')
    /\ stats_response' = MergeData(stats_response, retried_responses')
    /\ pc' = "persist_request"
    /\ UNCHANGED << fileVars, callVars, download_required, failed_time_intervals,
                    tasks, result, error, io, initial_response >>

\* A descriptor write that does not look at save_response.
WriteRequestUnsaved(r, rd, exists) == r.request_path /\ (rd \/ ~exists)

\* A descriptor write that does not look whether the file exists.
WriteRequestAlways(r, rd, exists) == r.request_path /\ r.save_response

\* if request_path and request.save_response and (self.redownload or not os.path.exists(request_path)):
WriteRequest(r, rd, exists) == r.request_path /\ r.save_response /\ (rd \/ ~exists)

PersistRequest ==
    /\ pc = "persist_request"
    /\ reqFile' = (reqFile \/ WriteRequest(request, redownload, reqFile))
    /\ io' = [io EXCEPT
          !.exists = @ + (IF request.request_path /\ request.save_response /\ ~redownload
                            THEN 1 ELSE 0),
          !.request_write = @ + (IF WriteRequest(request, redownload, reqFile) THEN 1 ELSE 0)]
    /\ pc' = "persist_response"
    /\ UNCHANGED << respFile, callVars, download_required, stats_response,
                    failed_time_intervals, tasks, retried_responses,
                    n_succeeded_intervals, result, error, initial_response >>

\* A write decision that ignores download_required.
WriteResponseIfFixed(r, required, n_succeeded) == r.save_response /\ n_succeeded > 0

\* A write decision that ignores the number of intervals the retry fixed.
WriteResponseIfRequired(r, required, n_succeeded) == r.save_response /\ required

\* if request.save_response and (download_required or n_succeeded_intervals > 0):
WriteResponse(r, required, n_succeeded) == r.save_response /\ (required \/ n_succeeded > 0)

\* write_data(response_path, stats_response, data_format=request.data_type)
\* With response_path None there is no file to write and write_data raises.
PersistResponse ==
    /\ pc = "persist_response"
    /\ IF WriteResponse(request, download_required, n_succeeded_intervals)
         THEN IF request.response_path
                THEN /\ respFile' = Some(stats_response)
                     /\ io' = [io EXCEPT !.response_write = @ + 1]
                     /\ pc' = "return"
                     /\ error' = error
                ELSE /\ pc' = "failed"
                     /\ error' = "IOError"
                     /\ UNCHANGED << respFile, io >>
         ELSE /\ pc' = "return"
              /\ UNCHANGED << respFile, io, error >>
    /\ UNCHANGED << reqFile, callVars, download_required, stats_response,
                    failed_time_intervals, tasks, retried_responses,
                    n_succeeded_intervals, result, initial_response >>

\* if request.return_data: return stats_response
\* return None
Return ==
    /\ pc = "return"
    /\ result' = IF request.return_data THEN Some(stats_response) ELSE None
    /\ pc' = "done"
    /\ UNCHANGED << fileVars, callVars, download_required, stats_response,
                    failed_time_intervals, tasks, retried_responses,
                    n_succeeded_intervals, error, io, initial_response >>

\* ----------------------------------------------------------------- claims
\* The call has a composite response and is past its retry and merge phase.
Merged == pc \in {"persist_request", "persist_response", "return"}
          \/ (pc = "done" /\ io.composite_fetch + io.read > 0)

\* The call ran to its return statement with a composite response.
Completed == pc = "done" /\ io.composite_fetch + io.read > 0

\* The (0-based) indices of the retriable entries of a data sequence.
RetriableIndices(data) == { p - 1 : p \in { q \in 1..Len(data) : data[q].error \in RETIRABLE_ERRORS } }

\* The tasks whose sub-request was built for the interval of entry i of the
\* initial response.
TasksFor(i) == { p \in 1..Len(tasks) : tasks[p].request.timeRange = initial_response[i + 1].interval }

\* C1: after the retry and merge phase, every entry at a retriable index of the
\* initial response is the outcome of the one sub-request built from that
\* entry's own interval, and every other entry is the initial entry.
C1_MergeByIndex ==
    Merged =>
        /\ Len(stats_response) = Len(initial_response)
        /\ \A i \in Indices(initial_response) :
              IF i \in RetriableIndices(initial_response)
                THEN /\ Cardinality(TasksFor(i)) = 1
                     /\ \A p \in TasksFor(i) : Some(stats_response[i + 1]) = tasks[p].result
                ELSE stats_response[i + 1] = initial_response[i + 1]

\* A completed call that retried index 1 alone and changed it, index 0 kept.
C1_Witness ==
    /\ Completed
    /\ RetriableIndices(initial_response) = {1}
    /\ stats_response[2] # initial_response[2]
    /\ stats_response[1] = initial_response[1]

\* C2: whatever was retried, the data of the merged response, of the value
\* returned and of the response file written by the call are as long as the
\* data of the response first fetched or loaded.
C2_LengthKept ==
    Merged =>
        /\ Len(stats_response) = Len(initial_response)
        /\ result # None => Len(result[1]) = Len(initial_response)
        /\ io.response_write > 0 => Len(respFile[1]) = Len(initial_response)

\* A completed call that retried one of two entries, returned and wrote.
C2_Witness ==
    /\ Completed
    /\ Len(initial_response) = 2
    /\ Cardinality(RetriableIndices(initial_response)) = 1
    /\ result # None
    /\ io.response_write = 1

\* The number of sub-requests whose outcome has no error field.
SucceededCount ==
    Cardinality({ p \in 1..Len(tasks) :
        tasks[p].result # None /\ tasks[p].result[1].error = "none" })

\* C3: in a completed call the response file is written iff save_response is
\* set and (the download was required or some retried outcome has no error);
\* a cache hit whose retry fixed an interval is stored as merged.
C3_ResponseWrittenIff ==
    Completed =>
        /\ io.response_write = 1 <=>
              (request.save_response /\ (download_required \/ SucceededCount > 0))
        /\ io.response_write \in {0, 1}
        /\ io.response_write = 0 => respFile = fileAtStart
        /\ io.response_write = 1 => respFile = Some(stats_response)

\* A completed cache hit whose retry fixed an interval and was written.
C3_Witness ==
    /\ Completed
    /\ ~download_required
    /\ SucceededCount > 0
    /\ io.response_write = 1
    /\ respFile # fileAtStart

\* C4: with redownload off, the response path set and a file there that holds
\* no retriable entry, a call fetches nothing from the network (composite or
\* sub-request) and does not write the response file.
C4_CleanCacheHitNoFetchNoWrite ==
    ( /\ pc \notin {"idle", "validate"}
      /\ ~redownload
      /\ request.response_path
      /\ fileAtStart # None
      /\ RetriableIndices(fileAtStart[1]) = {} )
    => /\ io.composite_fetch = 0
       /\ io.interval_fetch = 0
       /\ io.response_write = 0
       /\ respFile = fileAtStart

\* A completed call that loaded a cached response with an error entry that
\* is not retriable.
C4_Witness ==
    /\ Completed
    /\ ~download_required
    /\ io.read = 1
    /\ Len(initial_response) = 2
    /\ RetriableIndices(initial_response) = {}
    /\ \E p \in 1..2 : initial_response[p].error = "BAD_REQUEST"
    /\ request.save_response

C6_NoRetryWithoutFailure ==
    RetriableIndices(initial_response) = {} =>
        /\ io.executor = 0
        /\ io.interval_fetch = 0
        /\ tasks = << >>
        /\ io.response_write > 0 => respFile = Some(initial_response)

\* A completed call that fetched two entries, none retriable, and wrote them.
C6_Witness ==
    /\ Completed
    /\ io.composite_fetch = 1
    /\ Len(initial_response) = 2
    /\ RetriableIndices(initial_response) = {}
    /\ io.response_write = 1

\* C7: a retried outcome that still carries an error replaces the entry at
\* its index, n_succeeded_intervals counts the outcomes without error only,
\* and a completed cache hit with no error-free outcome leaves the response
\* file as it was.
C7_FailedRetryMergedNotCounted ==
    Merged =>
        /\ \A p \in 1..Len(tasks) :
              tasks[p].result[1].error # "none" =>
                  stats_response[failed_time_intervals[p].index + 1] = tasks[p].result[1]
        /\ n_succeeded_intervals = SucceededCount
        /\ (Completed /\ ~download_required /\ SucceededCount = 0) =>
              (io.response_write = 0 /\ respFile = fileAtStart)

\* A completed cache hit that saves, whose one retried outcome carries another
\* error than the cached entry: merged in, file left alone.
C7_Witness ==
    /\ Completed
    /\ ~download_required
    /\ request.save_response
    /\ Len(tasks) = 1
    /\ tasks[1].result[1].error = "BAD_REQUEST"
    /\ stats_response[failed_time_intervals[1].index + 1].error = "BAD_REQUEST"
    /\ Some(stats_response) # fileAtStart
    /\ respFile = fileAtStart

\* C8: a call for a request that fails validation, or that asks neither to
\* save nor to return data, does no network and no disk operation; the first
\* raises, the second returns None.
C8_NothingToDoNoIO ==
    (pc # "idle" /\ (~request.valid \/ ~(request.save_response \/ request.return_data)))
    => /\ io = NoIO
       /\ result = None
       /\ respFile = fileAtStart
       /\ IF request.valid
            THEN pc \in {"validate", "done"} /\ error = "none"
            ELSE pc \in {"validate", "failed"}

\* A call that returned None for a valid request that has a response path
\* and asks neither to save nor to return.
C8_Witness ==
    /\ pc = "done"
    /\ request.valid
    /\ ~request.save_response
    /\ ~request.return_data
    /\ request.response_path
    /\ result = None

\* C9: once a sub-request has raised, the call merges nothing, writes
\* nothing and returns nothing: it can only wait for the other tasks and fail
\* with an exception.
C9_FailFast ==
    (\E p \in 1..Len(tasks) : tasks[p].state = "raised") =>
        /\ pc \in {"join", "failed"}
        /\ stats_response = initial_response
        /\ retried_responses = << >>
        /\ n_succeeded_intervals = 0
        /\ result = None
        /\ io.request_write = 0
        /\ io.response_write = 0
        /\ respFile = fileAtStart
        /\ pc = "failed" => error # "none"

\* A failed call in which one sub-request raised and another returned an
\* entry without error.
C9_Witness ==
    /\ pc = "failed"
    /\ \E p, q \in 1..Len(tasks) :
          /\ tasks[p].state = "raised"
          /\ tasks[q].state = "returned"
          /\ tasks[q].result[1].error = "none"

\* C10: a sub-request fetches at most RETRY_NUM times; every attempt before
\* its last got a retriable result; it returns the result of its last attempt,
\* which is not retriable or is attempt RETRY_NUM; and an attempt with such a
\* result is the last and is returned.
C10_BoundedAttempts ==
    \A p \in 1..Len(tasks) :
        LET t == tasks[p]
            n == Len(t.log)
        IN /\ t.fetches <= RETRY_NUM
           /\ n <= t.fetches
           /\ \A k \in 1..(n - 1) : _has_retriable_error(t.log[k])
           /\ t.state = "returned" =>
                 /\ n >= 1
                 /\ t.result = Some(t.log[n])
                 /\ ~_has_retriable_error(t.log[n]) \/ n = RETRY_NUM
           /\ (n >= 1 /\ (~_has_retriable_error(t.log[n]) \/ n = RETRY_NUM)) =>
                 t.state = "returned"

\* A sub-request that returned a result still retriable after RETRY_NUM
\* attempts.
C10_Witness ==
    \E p \in 1..Len(tasks) :
        /\ tasks[p].state = "returned"
        /\ tasks[p].fetches = RETRY_NUM
        /\ _has_retriable_error(tasks[p].result[1])

\* C11: the composite fetch runs iff redownload is set, or there is no
\* response path, or no file at it; otherwise the stored response is loaded;
\* a call does at most one of the two, and exactly one once it is past them.
C11_FetchXorLoad ==
    LET required == redownload \/ ~request.response_path \/ fileAtStart = None
    IN /\ io.composite_fetch + io.read <= 1
       /\ io.composite_fetch = 1 => required
       /\ io.read = 1 => ~required
       /\ pc \in {"fetch", "load"} => download_required = required
       /\ (pc \in {"scan", "retry", "join", "persist_request", "persist_response", "return"}
            \/ (pc = "done" /\ ~NothingToDo(request)))
          => /\ io.composite_fetch + io.read = 1
             /\ download_required = required
             /\ io.composite_fetch = 1 <=> required

\* A completed call that fetched although a response was stored, because
\* redownload was set.
C11_Witness ==
    /\ Completed
    /\ redownload
    /\ request.response_path
    /\ fileAtStart # None
    /\ io.composite_fetch = 1
    /\ io.read = 0

\* C12: a completed call writes the request descriptor iff a descriptor path
\* is configured, save_response is set and (redownload is set or the file was
\* absent); with redownload off an existing descriptor is not written.
C12_DescriptorWrittenIff ==
    /\ io.request_write \in {0, 1}
    /\ (~redownload /\ reqFileAtStart) => io.request_write = 0
    /\ Completed =>
          /\ io.request_write = 1 <=>
                (request.request_path /\ request.save_response
                 /\ (redownload \/ ~reqFileAtStart))
          /\ reqFile = (reqFileAtStart \/ io.request_write = 1)

\* A completed call with redownload off that saves, found its descriptor and
\* did not write it.
C12_Witness ==
    /\ Completed
    /\ ~redownload
    /\ request.request_path
    /\ request.save_response
    /\ reqFileAtStart
    /\ io.request_write = 0

\* The entries the scan must yield for a data sequence: the indices whose
\* error type is EXECUTION_ERROR or TIMEOUT, ascending, with their intervals.
RECURSIVE ExpectedFailures(_, _)
ExpectedFailures(data, p) ==
    IF p = 0 THEN << >>
    ELSE ExpectedFailures(data, p - 1) \o
         (IF data[p].error \in {"EXECUTION_ERROR", "TIMEOUT"}
            THEN << [index |-> p - 1, interval |-> data[p].interval] >>
            ELSE << >>)

\* C13: an entry is retriable iff its error type is EXECUTION_ERROR or
\* TIMEOUT; once the scan has run, failed_time_intervals holds exactly the
\* indices of the retriable entries with their intervals, and the scan leaves
\* the response as it was.
C13_FaultClassification ==
    /\ \A type \in ErrorTypes :
          _has_retriable_error(StatInfo(FullRange, type))
              <=> type \in {"EXECUTION_ERROR", "TIMEOUT"}
    /\ pc # "scan" =>
          failed_time_intervals = ExpectedFailures(initial_response, Len(initial_response))
    /\ pc \in {"retry", "join"} => stats_response = initial_response

\* The scan of a response whose entry 0 has an error that is not retriable
\* and whose entry 1 timed out has found entry 1 alone.
C13_Witness ==
    /\ pc = "retry"
    /\ Len(initial_response) = 2
    /\ initial_response[1].error = "BAD_REQUEST"
    /\ initial_response[2].error = "TIMEOUT"
    /\ failed_time_intervals = << [index |-> 1, interval |-> IntervalOf(1)] >>

\* C14: while a sub-request is running the call waits in the join and the
\* data are the initial ones; nothing is merged before every task has ended,
\* and no step of a task changes the data.
C14_JoinBarrier ==
    /\ (\E p \in 1..Len(tasks) : tasks[p].state = "running") =>
          /\ pc = "join"
          /\ retried_responses = << >>
          /\ n_succeeded_intervals = 0
    /\ pc \in {"retry", "join"} => stats_response = initial_response
    /\ stats_response # initial_response =>
          \A p \in 1..Len(tasks) : tasks[p].state = "returned"

\* One sub-request has returned an entry that differs from the initial one
\* while another is still running.
C14_Witness ==
    /\ pc = "join"
    /\ Len(tasks) = 2
    /\ tasks[1].state = "running"
    /\ tasks[2].state = "returned"
    /\ tasks[2].result[1] # initial_response[failed_time_intervals[2].index + 1]

\* C16: every sub-request is the request with its time range alone replaced
\* by the interval of the failed entry it stands for, two sub-requests never
\* have the same time range, and the request keeps its own time range.
C16_CloneOnFanOut ==
    /\ request \in Requests
    /\ request.timeRange = FullRange
    /\ Len(tasks) \in {0, Len(failed_time_intervals)}
    /\ \A p \in 1..Len(tasks) :
          /\ tasks[p].request = [request EXCEPT !.timeRange = failed_time_intervals[p].interval]
          /\ tasks[p].request.timeRange =
                initial_response[failed_time_intervals[p].index + 1].interval
          /\ \A q \in 1..Len(tasks) :
                q # p => tasks[q].request.timeRange # tasks[p].request.timeRange

\* A completed call that ran two sub-requests.
C16_Witness ==
    /\ Completed
    /\ Len(tasks) = 2
    /\ tasks[1].request.timeRange = IntervalOf(0)
    /\ tasks[2].request.timeRange = IntervalOf(1)
    /\ request.timeRange = FullRange

\* C17: the raise after the loop of _execute_single_stat_download is never
\* reached: a sub-request that has ended returned a result of the loop or
\* raised the error of a fetch.
C17_NoRetriesUnreachable ==
    /\ error # "ValueError"
    /\ \A p \in 1..Len(tasks) :
          /\ tasks[p].error # "ValueError"
          /\ tasks[p].state = "raised" =>
                (tasks[p].error = "DownloadError" /\ tasks[p].result = None)
          /\ tasks[p].state = "returned" =>
                (tasks[p].error = "none" /\ tasks[p].result # None)
          /\ tasks[p].state = "running" => tasks[p].retry_count < RETRY_NUM

\* Every sub-request has ended: one returned a result that is still
\* retriable, one raised the error of its fetch.
C17_Witness ==
    /\ Len(tasks) = 2
    /\ tasks[1].state = "returned"
    /\ _has_retriable_error(tasks[1].result[1])
    /\ tasks[2].state = "raised"
    /\ pc = "failed"

\* C18: a call writes each file at most once, nothing before the scan and
\* the retry and merge have finished, and the response only after the step
\* that decides on the descriptor; a call that fails in the fetch, the
\* decoding, the load or a sub-request leaves both files as they were.
C18_StepOrder ==
    /\ io.request_write <= 1
    /\ io.response_write <= 1
    /\ pc \in {"validate", "paths", "fetch", "load", "scan", "retry", "join", "persist_request"} =>
          /\ io.request_write = 0 /\ io.response_write = 0
          /\ respFile = fileAtStart /\ reqFile = reqFileAtStart
    /\ pc = "persist_response" => (io.response_write = 0 /\ respFile = fileAtStart)
    /\ io.response_write = 1 => pc \in {"return", "done"}
    /\ (io.request_write = 1 \/ io.response_write = 1) =>
          /\ failed_time_intervals = ExpectedFailures(initial_response, Len(initial_response))
          /\ Len(tasks) = Len(failed_time_intervals)
          /\ \A p \in 1..Len(tasks) : tasks[p].state = "returned"
    /\ (pc = "failed" /\ (error \in {"InvalidRequest", "DownloadError", "ValueError"} \/ io.read = 1)) =>
          /\ io.request_write = 0 /\ io.response_write = 0
          /\ respFile = fileAtStart /\ reqFile = reqFileAtStart

\* A call that retried an interval and then wrote the descriptor and the
\* response.
C18_Witness ==
    /\ pc = "return"
    /\ tasks # << >>
    /\ io.request_write = 1
    /\ io.response_write = 1

\* C20: after a completed call that saves, the response file and the merged
\* response agree at every index that was not retried; they differ only after
\* a cache hit whose retried outcomes all carry an error; a file written by
\* the call holds the merged response.
C20_StoredAgreesWithReturned ==
    /\ io.response_write = 1 => respFile = Some(stats_response)
    /\ (Completed /\ request.save_response) =>
          /\ respFile # None
          /\ Len(respFile[1]) = Len(stats_response)
          /\ \A i \in Indices(stats_response) :
                i \notin RetriableIndices(initial_response) =>
                    respFile[1][i + 1] = stats_response[i + 1]
          /\ respFile[1] # stats_response =>
                /\ ~download_required
                /\ tasks # << >>
                /\ SucceededCount = 0
                /\ io.response_write = 0

\* A completed cache hit that saves: the merged response differs from the
\* file at the retried index.
C20_Witness ==
    /\ Completed
    /\ request.save_response
    /\ ~download_required
    /\ respFile # None
    /\ respFile[1] # stats_response

\* C21: in a call with redownload off that finds the response file, at every
\* step: no composite fetch is made; a sub-request is made only for the
\* interval of an entry that is retriable in the file as the call found it; the
\* file keeps its length and every entry that was not retriable when the call
\* started; so the retriable indices of the file are among those it started
\* with, and an entry that differs from the start was retriable at the start.
C21_CacheMonotone ==
    (pc # "idle" /\ ~redownload /\ request.response_path /\ fileAtStart # None) =>
        LET before == fileAtStart[1]
            now == respFile[1]
            F == RetriableIndices(before)
        IN /\ io.composite_fetch = 0
           /\ respFile # None
           /\ Len(now) = Len(before)
           /\ \A p \in 1..Len(tasks) :
                 \E i \in F : tasks[p].request.timeRange = before[i + 1].interval
           /\ io.interval_fetch > 0 => F # {}
           /\ \A i \in Indices(before) : i \notin F => now[i + 1] = before[i + 1]
           /\ RetriableIndices(now) \subseteq F
           /\ { i \in Indices(before) : now[i + 1] # before[i + 1] } \subseteq F

\* A call with redownload off found a file with an entry in error that is not
\* retriable and a retriable one, and replaced only the retriable one.
C21_Witness ==
    /\ Completed
    /\ ~redownload
    /\ fileAtStart # None
    /\ Len(fileAtStart[1]) = 2
    /\ fileAtStart[1][1].error = "BAD_REQUEST"
    /\ fileAtStart[1][2].error = "TIMEOUT"
    /\ io.response_write = 1
    /\ respFile[1][1] = fileAtStart[1][1]
    /\ respFile[1][2].error = "none"
    /\ RetriableIndices(respFile[1]) = {}

Next ==
    \/ StartCall
    \/ Validate
    \/ ResolvePaths
    \/ Fetch
    \/ Load
    \/ Scan
    \/ Dispatch
    \/ \E p \in 1..MaxLen : TaskAttempt(p)
    \/ RetryFailed
    \/ Merge
    \/ PersistRequest
    \/ PersistResponse
    \/ Return


Spec == Init /\ [][Next]_vars

\* The calls of Spec under two more names. The invariants are spread over
\* three runs, each of which visits every state of Spec.
SpecDecisions == Init /\ [][Next]_vars
SpecSteps == Init /\ [][Next]_vars

\* ------------------------------------------------------ completion order
\* The same calls with the order in which the sub-requests end recorded, for
\* a valid request that saves, returns its data and has both paths.
InitOrder ==
    /\ Init
    /\ request.valid
    /\ request.save_response
    /\ request.return_data
    /\ request.request_path
    /\ request.response_path

NextOrder ==
    \/ StartCall
    \/ Validate
    \/ ResolvePaths
    \/ Fetch
    \/ Load
    \/ Scan
    \/ Dispatch
    \/ \E p \in 1..MaxLen : TaskAttemptTimed(p)
    \/ RetryFailed
    \/ Merge
    \/ PersistRequest
    \/ PersistResponse
    \/ Return

SpecOrder == InitOrder /\ [][NextOrder]_vars

\* The answer the service gave for the interval of entry i of the initial
\* response.
AnswerFor(i) ==
    LET p == CHOOSE q \in 1..Len(tasks) :
                 tasks[q].request.timeRange = initial_response[i + 1].interval
    IN tasks[p].result[1]

\* C15: in whatever order the sub-requests ended, the retried outcomes, the
\* merged data, n_succeeded_intervals and the decision to write the response
\* are the ones the answers per interval determine.
C15_OrderIndependent ==
    Merged =>
        LET F == RetriableIndices(initial_response)
            fixed == { i \in F : AnswerFor(i).error = "none" }
        IN /\ DOMAIN retried_responses = F
           /\ \A i \in F : retried_responses[i] = AnswerFor(i)
           /\ stats_response =
                 [p \in 1..Len(initial_response) |->
                     IF (p - 1) \in F THEN AnswerFor(p - 1) ELSE initial_response[p]]
           /\ n_succeeded_intervals = Cardinality(fixed)
           /\ pc \in {"return", "done"} =>
                 (io.response_write = 1 <=> (download_required \/ fixed # {}))

\* A completed call whose second sub-request ended before its first, the
\* two with different answers.
C15_Witness ==
    /\ Completed
    /\ completion = << 2, 1 >>
    /\ tasks[1].result # tasks[2].result
    /\ tasks[1].result[1].error = "none"
    /\ tasks[2].result[1].error = "BAD_REQUEST"

\* ------------------------------------------------------- concurrent calls
\* Two callers run _single_download at the same time with the same request on
\* the same client: they share self.redownload and the two files and nothing
\* else. The first call takes the steps above; the steps of the second one
\* follow, on its own locals in `other`. Each disk or network operation is one
\* step; what a call computes on its locals between two of them is one step.
RaceLen == 1

firstVars == << n_intervals, pc, request, redownload, download_required,
                stats_response, failed_time_intervals, tasks, retried_responses,
                n_succeeded_intervals, result, error, io, initial_response,
                fileAtStart, reqFileAtStart, completion, prev >>

InitRace ==
    /\ Init
    /\ n_intervals <= RaceLen
    /\ request.valid
    /\ request.save_response
    /\ request.response_path

\* Both callers invoke _single_download before either has taken a step.
StartBoth ==
    /\ pc = "idle"
    /\ other.pc = "idle"
    /\ redownload' \in BOOLEAN
    /\ pc' = "validate"
    /\ other' = [other EXCEPT !.pc = "validate"]
    /\ UNCHANGED << fileVars, n_intervals, request, download_required,
                    stats_response, failed_time_intervals, tasks,
                    retried_responses, n_succeeded_intervals, result, error, io,
                    initial_response, fileAtStart, reqFileAtStart, completion,
                    prev >>

\* Lines 25-27 in the second call.
OtherValidate ==
    /\ other.pc = "validate"
    /\ other' = IF raise_if_invalid(request)
                  THEN [other EXCEPT !.pc = "failed", !.error = "InvalidRequest"]
                  ELSE [other EXCEPT !.pc = IF NothingToDo(request) THEN "done"
                                            ELSE "paths"]
    /\ UNCHANGED << fileVars, firstVars >>

\* Lines 29-31 in the second call: os.path.exists sees the file as it is now.
OtherResolvePaths ==
    /\ other.pc = "paths"
    /\ LET required == DownloadRequired(redownload, request, respFile)
       IN other' = [other EXCEPT !.download_required = required,
                                 !.pc = IF required THEN "fetch" ELSE "load"]
    /\ UNCHANGED << fileVars, firstVars >>

\* Lines 33-34 in the second call.
OtherFetch ==
    /\ other.pc = "fetch"
    /\ \/ other' = [other EXCEPT !.composite_fetch = @ + 1, !.pc = "failed",
                                 !.error = "DownloadError"]
       \/ \E data \in CompositeResponses(n_intervals) :
             other' = [other EXCEPT !.composite_fetch = @ + 1,
                                    !.stats_response = data, !.pc = "scan"]
    /\ UNCHANGED << fileVars, firstVars >>

\* Line 36 in the second call: it reads what the file holds now.
OtherLoad ==
    /\ other.pc = "load"
    /\ \/ other' = [other EXCEPT !.read = @ + 1, !.pc = "failed", !.error = "IOError"]
       \/ other' = [other EXCEPT !.read = @ + 1, !.stats_response = respFile[1],
                                 !.pc = "scan"]
    /\ UNCHANGED << fileVars, firstVars >>

\* Lines 38-41 in the second call.
OtherScan ==
    /\ other.pc = "scan"
    /\ LET failed == ScanFailures(other.stats_response)
       IN other' = [other EXCEPT !.failed_time_intervals = failed,
                                 !.n_succeeded_intervals = 0,
                                 !.pc = IF RetryNeeded(failed) THEN "retry"
                                        ELSE "persist_request"]
    /\ UNCHANGED << fileVars, firstVars >>

\* The error types _execute_single_stat_download can return: those some
\* iteration of its loop returns.
ReturnedTypes ==
    { type \in ErrorTypes :
        \E retry_count \in 0..(RETRY_NUM - 1) :
            ReturnsNow(StatInfo(FullRange, type), retry_count) }

\* Lines 43-50 in the second call: its sub-requests touch neither file, so
\* the whole retry is one step. A sub-request raises, or every one returns.
OtherRetry ==
    /\ other.pc = "retry"
    /\ \/ other' = [other EXCEPT !.pc = "failed", !.error = "DownloadError"]
       \/ \E types \in [1..Len(other.failed_time_intervals) -> ReturnedTypes] :
             LET failed == other.failed_time_intervals
                 responses == [p \in 1..Len(failed) |->
                                  StatInfo(failed[p].interval, types[p])]
                 retried == ZipByPosition(failed, responses)
             IN other' = [other EXCEPT
                    !.n_succeeded_intervals = CountSucceeded(retried),
                    !.stats_response = MergeData(@, retried),
                    !.pc = "persist_request"]
    /\ UNCHANGED << fileVars, firstVars >>

\* Lines 52-54 in the second call.
OtherPersistRequest ==
    /\ other.pc = "persist_request"
    /\ reqFile' = (reqFile \/ WriteRequest(request, redownload, reqFile))
    /\ other' = [other EXCEPT !.pc = "persist_response"]
    /\ UNCHANGED << respFile, firstVars >>

\* A write that leaves alone a file that is already there.
OtherPersistResponseExclusive ==
    /\ other.pc = "persist_response"
    /\ respFile' = IF respFile = None THEN Some(other.stats_response) ELSE respFile
    /\ other' = [other EXCEPT !.response_write = @ + 1,
                              !.after_first = (io.response_write = 1),
                              !.pc = "return"]
    /\ UNCHANGED << reqFile, firstVars >>

\* Lines 56-57 in the second call. after_first records whether the first call
\* had written its response when this write happened.
OtherPersistResponse ==
    /\ other.pc = "persist_response"
    /\ IF WriteResponse(request, other.download_required, other.n_succeeded_intervals)
         THEN IF request.response_path
                THEN /\ respFile' = Some(other.stats_response)
                     /\ other' = [other EXCEPT !.response_write = @ + 1,
                                               !.after_first = (io.response_write = 1),
                                               !.pc = "return"]
                ELSE /\ other' = [other EXCEPT !.pc = "failed", !.error = "IOError"]
                     /\ UNCHANGED respFile
         ELSE /\ other' = [other EXCEPT !.pc = "return"]
              /\ UNCHANGED respFile
    /\ UNCHANGED << reqFile, firstVars >>

\* Lines 59-61 in the second call.
OtherReturn ==
    /\ other.pc = "return"
    /\ other' = [other EXCEPT
          !.result = IF request.return_data THEN Some(other.stats_response) ELSE None,
          !.pc = "done"]
    /\ UNCHANGED << fileVars, firstVars >>

NextRace ==
    \/ StartBoth
    \/ Validate
    \/ ResolvePaths
    \/ Fetch
    \/ Load
    \/ Scan
    \/ Dispatch
    \/ \E p \in 1..MaxLen : TaskAttempt(p)
    \/ RetryFailed
    \/ Merge
    \/ PersistRequest
    \/ PersistResponse
    \/ Return
    \/ OtherValidate
    \/ OtherResolvePaths
    \/ OtherFetch
    \/ OtherLoad
    \/ OtherScan
    \/ OtherRetry
    \/ OtherPersistRequest
    \/ OtherPersistResponse
    \/ OtherReturn

SpecRace == InitRace /\ [][NextRace]_vars

\* The positions of a call between its test of the response file and its
\* write of it.
PastPaths == {"fetch", "load", "scan", "retry", "join", "persist_request",
              "persist_response", "return", "done"}

\* C19: nothing serialises two concurrent calls on one response path. As long
\* as no response file is there, each call that has tested for it has found
\* download required, whatever the other call is doing; each call that fetched
\* the composite response and got past the write has written the file; and the
\* file holds the data of the write that came last.
C19_ConcurrentCallsRace ==
    LET firstWrote == io.response_write = 1
        otherWrote == other.response_write = 1
    IN /\ (respFile = None /\ pc \in PastPaths) => download_required
       /\ (respFile = None /\ other.pc \in PastPaths) => other.download_required
       /\ (pc \in {"return", "done"} /\ io.composite_fetch = 1) => firstWrote
       /\ (other.pc \in {"return", "done"} /\ other.composite_fetch = 1) => otherWrote
       /\ (firstWrote /\ otherWrote) =>
             respFile = Some(IF other.after_first THEN other.stats_response
                             ELSE stats_response)
       /\ (firstWrote /\ ~otherWrote) => respFile = Some(stats_response)
       /\ (otherWrote /\ ~firstWrote) => respFile = Some(other.stats_response)

\* Both calls ran with redownload off and no file: both found download
\* required, both fetched, both wrote different data, the second call last.
C19_Witness ==
    /\ pc = "done"
    /\ other.pc = "done"
    /\ ~redownload
    /\ download_required
    /\ other.download_required
    /\ io.composite_fetch = 1
    /\ other.composite_fetch = 1
    /\ io.response_write = 1
    /\ other.response_write = 1
    /\ other.after_first
    /\ stats_response # other.stats_response
    /\ respFile = Some(other.stats_response)

====
